---- MODULE Spec2Model ----
(***************************************************************************)
(* Runaway Monitor (src/Runaway_Monitor/monitor.py) with the usage         *)
(* detector's fan-in (detectors/api_detector.py): construction, baseline,  *)
(* the monitoring loop, anomaly detection and the circuit breaker; and,    *)
(* each with a specification of its own, the GitHub secrets manager        *)
(* (src/github_secrets_manager.py), the rotation scheduler                 *)
(* (src/key_rotation/rotation_scheduler.py) and the .env auto-sync handler *)
(* (src/src/auto_sync.py).                                                 *)
(*                                                                         *)
(* Python dicts are records; a key that is absent from the dict is absent  *)
(* from the record's DOMAIN, and dict.get(key, default) is Get.  Costs and *)
(* request rates are integers; the ratio current/baseline is kept as an    *)
(* exact fraction [num, den] in lowest terms.                              *)
(***************************************************************************)
EXTENDS Integers, Sequences, FiniteSets, TLC

VARIABLES
    config_file,        \* what is at config_path on disk when __init__ runs
    credentials,        \* the services whose credentials are in the environment
    feed,               \* the usage dicts the service adapters can return in this session
    faults,             \* the unexpected exceptions this session can meet
    telegram,           \* how Telegram delivery goes in this session
    budget,             \* how many monitoring cycles this session is followed for
    pc,                 \* position of the program: __init__, start_monitoring's loop
    config,             \* self.config
    logger,             \* whether self.logger has been assigned
    monitoring_active,  \* self.monitoring_active
    last_check,         \* self.last_check (cycle number; 0 is None)
    anomalies_detected, \* self.anomalies_detected
    baseline_usage,     \* self.baseline_usage
    cycles,             \* monitoring cycles started so far (the clock)
    waited,             \* argument of the most recent asyncio.sleep (0: none yet)
    cycle_failed,       \* the most recent cycle ended in its except branch (line 139)
    decisions,          \* decisions[i]: _should_trigger_circuit_breaker's answer for anomalies_detected[i]
    critical_alerts,    \* services named by send_critical_alert calls, in call order
    alerts_sent,        \* the anomaly dicts as send_anomaly_alert received them, in call order
    alert_results,      \* what those send_anomaly_alert calls returned, in call order
    last_results,       \* get_all_usage's results in the most recent cycle, in task order
    last_usage,         \* _monitoring_cycle's current_usage in the most recent cycle
    last_anomalies,     \* _monitoring_cycle's anomalies in the most recent cycle
    pending,            \* the tasks asyncio.gather is still waiting for: <<cycle, index>>
    probe,              \* result of the most recent direct call of a check function
    github,             \* GitHubSecretsManager: the repositories, the requests issued, the results
    rotation,           \* RotationScheduler: the environment, the events, the calls made
    autosync            \* ENVSyncHandler: the clock, the timers, the events seen, the syncs run

vars == <<config_file, credentials, feed, faults, telegram, budget, pc, config, logger,
          monitoring_active, last_check, anomalies_detected, baseline_usage,
          cycles, waited, cycle_failed, decisions, critical_alerts, alerts_sent,
          alert_results, pending, github, rotation, autosync,
          last_results, last_usage, last_anomalies, probe>>

----------------------------------------------------------------------------
(* Bounds of the model *)

MaxCycles == 2
WindowCycles == 5
FairCycles == 2
MaxCost == 21
MaxRequests == 13
MaxBaseline == 2
MaxProjects == 2
MaxExecutions == 3
MaxEvents == 3
MaxTime == 8

(* Program constants *)

ErrorBackoffSeconds == 60
HistoryWindow == 10
TripCount == 3
SeverityFactor == 2

----------------------------------------------------------------------------
(* Python values *)

None == [none |-> TRUE]
EmptyDict == [k \in {} |-> TRUE]

Get(d, key, default) == IF key \in DOMAIN d THEN d[key] ELSE default

RECURSIVE Gcd(_, _)
Gcd(a, b) == IF b = 0 THEN a ELSE Gcd(b, a % b)

Raised(x) == "raised" \in DOMAIN x
ZeroDivisionError == [raised |-> "ZeroDivisionError"]
AttributeError == [raised |-> "AttributeError"]
KeyError == [raised |-> "KeyError"]

\* a / b (true division): the exact fraction in lowest terms
Divide(a, b) ==
    IF b = 0 THEN ZeroDivisionError
    ELSE LET g == Gcd(a, b) IN [num |-> a \div g, den |-> b \div g]

Frac(n, d) == [num |-> n, den |-> d]

\* x > y on fractions with positive denominators
RatGT(x, y) == x.num * y.den > y.num * x.den

RatTimes(x, n) == [num |-> x.num * n, den |-> x.den]

----------------------------------------------------------------------------
(* Services: APIUsageDetector.services, in dict order (restricted to two) *)

ServiceOrder == <<"openai", "stripe">>
Services == {ServiceOrder[i] : i \in 1..Len(ServiceOrder)}

----------------------------------------------------------------------------
(* Configuration *)

default_config ==
    [monitoring_interval |-> 300,
     cost_thresholds |->
        [openai |-> [hourly |-> 10, daily |-> 100],
         github_actions |-> [hourly |-> 5, daily |-> 50],
         stripe |-> [hourly |-> 50, daily |-> 500],
         supabase |-> [hourly |-> 5, daily |-> 25]],
     usage_spike_multiplier |-> Frac(3, 1),
     circuit_breaker |-> [enabled |-> TRUE, threshold_multiplier |-> 5],
     alert_cooldown |-> 1800]

\* A config file that switches the circuit breaker off
DisabledConfig ==
    [default_config EXCEPT !.circuit_breaker = [enabled |-> FALSE, threshold_multiplier |-> 5]]

\* A config file (valid JSON) that has no "monitoring_interval" key
NoIntervalConfig ==
    [k \in DOMAIN default_config \ {"monitoring_interval"} |-> default_config[k]]

\* A config file (valid JSON) that has no "circuit_breaker" section
NoBreakerConfig ==
    [k \in DOMAIN default_config \ {"circuit_breaker"} |-> default_config[k]]

\* The configuration of test_monitor.py's setup_method, with a second service
TestConfig ==
    [monitoring_interval |-> 60,
     cost_thresholds |-> [openai |-> [hourly |-> 5, daily |-> 50],
                          stripe |-> [daily |-> 50]],
     usage_spike_multiplier |-> Frac(2, 1),
     circuit_breaker |-> [enabled |-> TRUE, threshold_multiplier |-> 3]]

FileMissing == [missing |-> TRUE]
FileInvalid == [invalid |-> TRUE]
JsonFile(c) == [json |-> c]

\* _load_config as called with self.logger assigned or not: both except
\* branches log through self.logger before they return the defaults
load_config(file, has_logger) ==
    IF "json" \in DOMAIN file THEN file.json
    ELSE IF ~has_logger THEN AttributeError
    ELSE default_config

----------------------------------------------------------------------------
(* Anomaly Detector.  The "message" of an anomaly is a formatting of its   *)
(* other fields and is left out of the record.                             *)

\* _check_cost_thresholds with the severity boundary included in "high"
check_cost_thresholds_inclusive(cfg, service, usage_data) ==
    LET service_config == Get(cfg.cost_thresholds, service, EmptyDict) IN
    IF DOMAIN service_config = {} THEN None
    ELSE
        LET current_cost == Get(usage_data, "estimated_cost", 0) IN
        IF "hourly" \in DOMAIN service_config /\ current_cost > service_config.hourly
        THEN [type |-> "cost_threshold",
              service |-> service,
              severity |-> IF current_cost >= service_config.hourly * SeverityFactor
                           THEN "high" ELSE "medium",
              current_cost |-> current_cost,
              threshold |-> service_config.hourly]
        ELSE None

\* _check_cost_thresholds (hourly defaults to float('inf'): nothing exceeds it)
check_cost_thresholds(cfg, service, usage_data) ==
    LET service_config == Get(cfg.cost_thresholds, service, EmptyDict) IN
    IF DOMAIN service_config = {} THEN None
    ELSE
        LET current_cost == Get(usage_data, "estimated_cost", 0) IN
        IF "hourly" \in DOMAIN service_config /\ current_cost > service_config.hourly
        THEN [type |-> "cost_threshold",
              service |-> service,
              severity |-> IF current_cost > service_config.hourly * SeverityFactor
                           THEN "high" ELSE "medium",
              current_cost |-> current_cost,
              threshold |-> service_config.hourly]
        ELSE None

\* _check_usage_spikes without its "baseline_requests == 0" return
check_usage_spikes_unguarded(cfg, baseline, service, usage_data) ==
    IF service \notin DOMAIN baseline THEN None
    ELSE
        LET current_requests == Get(usage_data, "requests_per_hour", 0)
            baseline_requests == Get(baseline[service], "requests_per_hour", 0)
            multiplier == Divide(current_requests, baseline_requests)
            spike_threshold == cfg.usage_spike_multiplier
        IN
        IF Raised(multiplier) THEN multiplier
        ELSE IF RatGT(multiplier, spike_threshold)
        THEN [type |-> "usage_spike",
              service |-> service,
              severity |-> IF RatGT(multiplier, RatTimes(spike_threshold, SeverityFactor))
                           THEN "high" ELSE "medium",
              current_requests |-> current_requests,
              baseline_requests |-> baseline_requests,
              multiplier |-> multiplier]
        ELSE None

\* _check_usage_spikes with the spike test made inclusive (>=)
check_usage_spikes_inclusive(cfg, baseline, service, usage_data) ==
    IF service \notin DOMAIN baseline THEN None
    ELSE
        LET current_requests == Get(usage_data, "requests_per_hour", 0)
            baseline_requests == Get(baseline[service], "requests_per_hour", 0)
        IN
        IF baseline_requests = 0 THEN None
        ELSE
            LET multiplier == Divide(current_requests, baseline_requests)
                spike_threshold == cfg.usage_spike_multiplier
            IN
            IF ~RatGT(spike_threshold, multiplier)
            THEN [type |-> "usage_spike",
                  service |-> service,
                  severity |-> IF RatGT(multiplier, RatTimes(spike_threshold, SeverityFactor))
                               THEN "high" ELSE "medium",
                  current_requests |-> current_requests,
                  baseline_requests |-> baseline_requests,
                  multiplier |-> multiplier]
            ELSE None

\* _check_usage_spikes
check_usage_spikes(cfg, baseline, service, usage_data) ==
    IF service \notin DOMAIN baseline THEN None
    ELSE
        LET current_requests == Get(usage_data, "requests_per_hour", 0)
            baseline_requests == Get(baseline[service], "requests_per_hour", 0)
        IN
        IF baseline_requests = 0 THEN None
        ELSE
            LET multiplier == Divide(current_requests, baseline_requests)
                spike_threshold == cfg.usage_spike_multiplier
            IN
            IF Raised(multiplier) THEN multiplier
            ELSE IF RatGT(multiplier, spike_threshold)
            THEN [type |-> "usage_spike",
                  service |-> service,
                  severity |-> IF RatGT(multiplier, RatTimes(spike_threshold, SeverityFactor))
                               THEN "high" ELSE "medium",
                  current_requests |-> current_requests,
                  baseline_requests |-> baseline_requests,
                  multiplier |-> multiplier]
            ELSE None

\* dict order of a usage dict filled by get_all_usage: the order of ServiceOrder
Keys(usage) == SelectSeq(ServiceOrder, LAMBDA s : s \in DOMAIN usage)

\* the loop body of _detect_anomalies skipping a service altogether when it
\* has no usable baseline
detect_service_needing_baseline(cfg, baseline, service, usage_data) ==
    LET cost_anomaly == check_cost_thresholds(cfg, service, usage_data)
        spike_anomaly == check_usage_spikes(cfg, baseline, service, usage_data)
    IN
    IF service \notin DOMAIN baseline THEN <<>>
    ELSE IF Get(baseline[service], "requests_per_hour", 0) = 0 THEN <<>>
    ELSE IF Raised(cost_anomaly) THEN <<>>
    ELSE (IF cost_anomaly # None THEN <<cost_anomaly>> ELSE <<>>) \o
         (IF Raised(spike_anomaly) \/ spike_anomaly = None THEN <<>> ELSE <<spike_anomaly>>)

\* the loop body of _detect_anomalies with the spike check skipped once the
\* cost check has found something
detect_service_exclusive(cfg, baseline, service, usage_data) ==
    LET cost_anomaly == check_cost_thresholds(cfg, service, usage_data)
        spike_anomaly == check_usage_spikes(cfg, baseline, service, usage_data)
    IN
    IF Raised(cost_anomaly) THEN <<>>
    ELSE IF cost_anomaly # None THEN <<cost_anomaly>>
    ELSE IF Raised(spike_anomaly) \/ spike_anomaly = None THEN <<>>
    ELSE <<spike_anomaly>>

\* the body of _detect_anomalies' loop for one service: an exception in a
\* check is caught after whatever the service already appended
detect_service(cfg, baseline, service, usage_data) ==
    LET cost_anomaly == check_cost_thresholds(cfg, service, usage_data)
        spike_anomaly == check_usage_spikes(cfg, baseline, service, usage_data)
    IN
    IF Raised(cost_anomaly) THEN <<>>
    ELSE (IF cost_anomaly # None THEN <<cost_anomaly>> ELSE <<>>) \o
         (IF Raised(spike_anomaly) \/ spike_anomaly = None THEN <<>> ELSE <<spike_anomaly>>)

RECURSIVE detect_from(_, _, _, _)
detect_from(cfg, baseline, current_usage, keys) ==
    IF keys = <<>> THEN <<>>
    ELSE detect_service(cfg, baseline, Head(keys), current_usage[Head(keys)]) \o
         detect_from(cfg, baseline, current_usage, Tail(keys))

\* _detect_anomalies
detect_anomalies(cfg, baseline, current_usage) ==
    detect_from(cfg, baseline, current_usage, Keys(current_usage))

----------------------------------------------------------------------------
(* Usage fan-in (APIUsageDetector.get_all_usage) *)

\* the detectors whose is_configured() holds, in dict order: one task each
Tasks(creds) == SelectSeq(ServiceOrder, LAMBDA s : s \in creds)

\* get_all_usage that gives up on the whole fan-in when one fetch failed
get_all_usage_all_or_nothing(results) ==
    IF \E i \in 1..Len(results) : "error" \in DOMAIN results[i]
    THEN EmptyDict
    ELSE [name \in {ServiceOrder[i] : i \in 1..Len(results)} |->
            results[CHOOSE i \in 1..Len(results) : ServiceOrder[i] = name]]

\* get_all_usage: results[i] is what the i-th task returned; it is stored under
\* list(self.services.keys())[i]
get_all_usage(results) ==
    [name \in {ServiceOrder[i] : i \in 1..Len(results)} |->
        results[CHOOSE i \in 1..Len(results) : ServiceOrder[i] = name]]

\* _get_service_usage's except branch: the failure comes back as a usage dict
FetchError == [error |-> "fetch failed"]

Sample(cost, requests) == [estimated_cost |-> cost, requests_per_hour |-> requests]

\* every list of results the adapters of this session can hand to the fan-in
ResultLists(creds, samples) ==
    {r \in [1..Len(Tasks(creds)) -> samples] : TRUE}

----------------------------------------------------------------------------
(* Notifier (TelegramNotifier) *)

\* how delivery can go: the message is accepted, the credentials are not in
\* the environment, the API answers with a status other than 200, or the
\* HTTP session raises
Deliveries == {"ok", "unconfigured", "http_error", "send_raises"}

Returns(value) == [returned |-> value]

ClientError == [raised |-> "ClientError"]

\* _send_message without its try/except
send_message_unguarded(tg) ==
    IF tg = "unconfigured" THEN Returns(FALSE)
    ELSE IF tg = "send_raises" THEN ClientError
    ELSE Returns(tg = "ok")

\* _send_message
send_message(tg) ==
    IF tg = "unconfigured" THEN Returns(FALSE)
    ELSE IF tg = "send_raises" THEN Returns(FALSE)
    ELSE Returns(tg = "ok")

\* send_anomaly_alert
send_anomaly_alert(tg, anomaly) ==
    IF tg = "unconfigured" THEN Returns(FALSE)
    ELSE send_message(tg)

----------------------------------------------------------------------------
(* Escalation policy (circuit breaker) *)

LastN(seq, n) ==
    IF Len(seq) <= n THEN seq ELSE SubSeq(seq, Len(seq) - n + 1, Len(seq))

\* _should_trigger_circuit_breaker without its severity test
should_trigger_count_only(cfg, history, anomaly) ==
    IF ~cfg.circuit_breaker.enabled THEN FALSE
    ELSE
        LET recent_anomalies ==
                SelectSeq(LastN(history, HistoryWindow),
                          LAMBDA a : "service" \in DOMAIN a /\ a.service = anomaly.service)
        IN Len(recent_anomalies) >= TripCount

\* _should_trigger_circuit_breaker without its count of recent anomalies
should_trigger_high_only(cfg, history, anomaly) ==
    IF ~cfg.circuit_breaker.enabled THEN FALSE
    ELSE anomaly.severity = "high"

\* _should_trigger_circuit_breaker without its test of circuit_breaker.enabled
should_trigger_ignoring_enabled(cfg, history, anomaly) ==
    IF anomaly.severity = "high" THEN TRUE
    ELSE
        LET recent_anomalies ==
                SelectSeq(LastN(history, HistoryWindow),
                          LAMBDA a : "service" \in DOMAIN a /\ a.service = anomaly.service)
        IN Len(recent_anomalies) >= TripCount

\* _should_trigger_circuit_breaker
should_trigger_circuit_breaker(cfg, history, anomaly) ==
    IF ~cfg.circuit_breaker.enabled THEN FALSE
    ELSE IF anomaly.severity = "high" THEN TRUE
    ELSE
        LET recent_anomalies ==
                SelectSeq(LastN(history, HistoryWindow),
                          LAMBDA a : "service" \in DOMAIN a /\ a.service = anomaly.service)
        IN Len(recent_anomalies) >= TripCount

\* one iteration of _handle_anomalies' loop on the monitor state st =
\* [history, decisions, critical, alerts, results, raised]: alert, decide,
\* trigger, stamp, append; an exception out of send_anomaly_alert ends the
\* iteration at the call, and so does the KeyError of
\* self.config["circuit_breaker"] in _should_trigger_circuit_breaker
handle_one(cfg, tg, st, anomaly, now) ==
    LET sent == send_anomaly_alert(tg, anomaly)
        trigger == should_trigger_circuit_breaker(cfg, st.history, anomaly)
    IN
    IF Raised(sent)
    THEN [st EXCEPT !.alerts = Append(st.alerts, anomaly), !.raised = TRUE]
    ELSE IF "circuit_breaker" \notin DOMAIN cfg
    THEN [st EXCEPT !.alerts = Append(st.alerts, anomaly),
                    !.results = Append(st.results, sent.returned),
                    !.raised = TRUE]
    ELSE [history |-> Append(st.history, anomaly @@ [timestamp |-> now]),
          decisions |-> Append(st.decisions, trigger),
          critical |-> IF trigger THEN Append(st.critical, anomaly.service) ELSE st.critical,
          alerts |-> Append(st.alerts, anomaly),
          results |-> Append(st.results, sent.returned),
          raised |-> FALSE]

\* _handle_anomalies; raise_at = i > 0: send_anomaly_alert raises for the i-th
\* anomaly before it reaches _send_message, which ends the loop before that
\* anomaly is decided or recorded
RECURSIVE handle_anomalies(_, _, _, _, _, _)
handle_anomalies(cfg, tg, st, anomalies, now, raise_at) ==
    IF anomalies = <<>> \/ st.raised THEN st
    ELSE IF raise_at = 1 THEN [st EXCEPT !.raised = TRUE]
    ELSE handle_anomalies(cfg, tg, handle_one(cfg, tg, st, Head(anomalies), now),
                          Tail(anomalies), now,
                          IF raise_at = 0 THEN 0 ELSE raise_at - 1)

----------------------------------------------------------------------------
(* Inputs *)

\* what can be found at config_path
ConfigFiles ==
    {FileMissing, FileInvalid, JsonFile(default_config), JsonFile(DisabledConfig),
     JsonFile(NoIntervalConfig), JsonFile(NoBreakerConfig)}

\* usage dicts of a session: quiet, moderately busy, runaway, failed fetch
LoopFeed == {Sample(0, 10), Sample(20, 40), Sample(101, 70), FetchError}

\* usage dicts of a session in which no service ever runs away
MediumFeed == {Sample(0, 10), Sample(20, 40)}

Unstarted ==
    /\ pc = "new"
    /\ config = None
    /\ logger = FALSE
    /\ monitoring_active = FALSE
    /\ last_check = 0
    /\ anomalies_detected = <<>>
    /\ baseline_usage = EmptyDict
    /\ cycles = 0
    /\ waited = 0
    /\ cycle_failed = FALSE
    /\ decisions = <<>>
    /\ critical_alerts = <<>>
    /\ alerts_sent = <<>>
    /\ alert_results = <<>>
    /\ last_results = <<>>
    /\ last_usage = None
    /\ last_anomalies = <<>>
    /\ pending = {}
    /\ probe = None

\* the other components before anything has been asked of them
ElsewhereIdle ==
    /\ github = None
    /\ rotation = None
    /\ autosync = None

\* no monitor has been constructed
NoMonitor ==
    /\ config_file = FileMissing
    /\ credentials = {}
    /\ feed = {}
    /\ faults = {}
    /\ telegram = "ok"
    /\ budget = 0
    /\ Unstarted

Init ==
    /\ config_file \in ConfigFiles
    /\ credentials \in SUBSET Services
    /\ feed = LoopFeed
    /\ faults = {"fetch", "notify"}
    /\ telegram = "ok"
    /\ budget = MaxCycles
    /\ Unstarted
    /\ ElsewhereIdle

\* a long session with every service configured, the default thresholds and
\* no runaway service: the history outgrows the breaker's window
InitWindow ==
    /\ config_file \in {JsonFile(default_config), JsonFile(NoIntervalConfig)}
    /\ credentials = Services
    /\ feed = MediumFeed
    /\ faults = {}
    /\ telegram = "ok"
    /\ budget = WindowCycles
    /\ Unstarted
    /\ ElsewhereIdle

\* a session with every service configured that meets failed fetches and
\* unexpected exceptions, followed under the event loop's fair scheduling
InitFair ==
    /\ config_file \in {JsonFile(default_config), JsonFile(NoIntervalConfig)}
    /\ credentials = Services
    /\ feed = {Sample(0, 10), Sample(101, 70), FetchError}
    /\ faults = {"fetch", "notify"}
    /\ telegram = "ok"
    /\ budget = FairCycles
    /\ Unstarted
    /\ ElsewhereIdle

\* a session with every service configured in which Telegram delivery can
\* fail in each of its ways and nothing else goes wrong
InitNotify ==
    /\ config_file \in {JsonFile(default_config), JsonFile(NoIntervalConfig)}
    /\ credentials = Services
    /\ feed = LoopFeed
    /\ faults = {}
    /\ telegram \in Deliveries
    /\ budget = MaxCycles
    /\ Unstarted
    /\ ElsewhereIdle

\* a session with every service configured, followed task by task through
\* each cycle's fan-in
InitGather ==
    /\ config_file \in {JsonFile(default_config), JsonFile(NoIntervalConfig)}
    /\ credentials = Services
    /\ feed = {Sample(0, 10), Sample(101, 70), FetchError}
    /\ faults = {"fetch", "notify"}
    /\ telegram = "ok"
    /\ budget = MaxCycles
    /\ Unstarted
    /\ ElsewhereIdle

\* A config file with a fractional spike multiplier (2.5)
FractionalConfig ==
    [default_config EXCEPT !.usage_spike_multiplier = Frac(5, 2)]

\* baselines as _establish_baseline can leave them: for any set of services, a
\* sample or a failed fetch each
DetectBaselines ==
    UNION {[known -> {Sample(0, b) : b \in 0..MaxBaseline} \cup {FetchError}] :
              known \in SUBSET Services}

\* a constructed monitor with a baseline, whose check functions are called
\* directly (as test_monitor.py does)
InitDetect ==
    /\ config_file \in {JsonFile(default_config), JsonFile(TestConfig),
                         JsonFile(FractionalConfig)}
    /\ credentials = Services
    /\ feed = {}
    /\ faults = {}
    /\ telegram = "ok"
    /\ budget = 0
    /\ ElsewhereIdle
    /\ pc = "idle"
    /\ config = config_file.json
    /\ logger = TRUE
    /\ monitoring_active = FALSE
    /\ last_check = 0
    /\ anomalies_detected = <<>>
    /\ baseline_usage \in DetectBaselines
    /\ cycles = 0
    /\ waited = 0
    /\ cycle_failed = FALSE
    /\ decisions = <<>>
    /\ critical_alerts = <<>>
    /\ alerts_sent = <<>>
    /\ alert_results = <<>>
    /\ last_results = <<>>
    /\ last_usage = None
    /\ last_anomalies = <<>>
    /\ pending = {}
    /\ probe = None

----------------------------------------------------------------------------
(* RunawayMonitor *)

\* the other components, which no step of the monitor touches
elsewhere == <<github, rotation, autosync>>

env == <<config_file, credentials, feed, faults, telegram, budget, elsewhere>>
breaker == <<anomalies_detected, decisions, critical_alerts, alerts_sent, alert_results>>
locals == <<last_results, last_usage, last_anomalies, pending>>

\* __init__: components, self.config = self._load_config(), the monitoring
\* state, then _setup_logging()
Construct ==
    /\ pc = "new"
    /\ LET loaded == load_config(config_file, logger) IN
        IF Raised(loaded)
        THEN /\ pc' = "aborted"
             /\ UNCHANGED <<config, logger, monitoring_active, last_check,
                            anomalies_detected, baseline_usage>>
        ELSE /\ config' = loaded
             /\ monitoring_active' = FALSE
             /\ last_check' = 0
             /\ anomalies_detected' = <<>>
             /\ baseline_usage' = EmptyDict
             /\ logger' = TRUE
             /\ pc' = "idle"
    /\ UNCHANGED <<env, cycles, waited, cycle_failed, decisions, critical_alerts,
                   alerts_sent, alert_results, locals, probe>>

\* start_monitoring up to its first await
StartMonitoring ==
    /\ pc = "idle"
    /\ monitoring_active' = TRUE
    /\ pc' = "baseline"
    /\ UNCHANGED <<env, config, logger, last_check, baseline_usage, cycles, waited,
                   cycle_failed, breaker, locals, probe>>

\* _establish_baseline: the fan-in's result becomes the baseline; if the
\* fan-in raises (the session cannot be created) the baseline stays as it is
EstablishBaseline ==
    /\ pc = "baseline"
    /\ \/ \E task_results \in ResultLists(credentials, feed) :
            baseline_usage' = get_all_usage(task_results)
       \/ /\ "fetch" \in faults
          /\ UNCHANGED baseline_usage
    /\ pc' = "loop"
    /\ UNCHANGED <<env, config, logger, monitoring_active, last_check, cycles, waited,
                   cycle_failed, breaker, locals, probe>>

\* the loop starting its cycles as tasks (asyncio.create_task) instead of
\* awaiting them: the next cycle can start while one is still fetching
LoopTestNotAwaiting ==
    /\ pc \in {"loop", "gather"}
    /\ IF monitoring_active
       THEN /\ cycles < budget
            /\ cycles' = cycles + 1
            /\ pc' = "cycle"
       ELSE /\ pc' = "returned"
            /\ UNCHANGED cycles
    /\ UNCHANGED <<env, config, logger, monitoring_active, last_check, baseline_usage,
                   waited, cycle_failed, breaker, locals, probe>>

\* "while True": the loop never reads self.monitoring_active
LoopTestIgnoringFlag ==
    /\ pc = "loop"
    /\ cycles < budget
    /\ cycles' = cycles + 1
    /\ pc' = "cycle"
    /\ UNCHANGED <<env, config, logger, monitoring_active, last_check, baseline_usage,
                   waited, cycle_failed, breaker, locals, probe>>

\* while self.monitoring_active
LoopTest ==
    /\ pc = "loop"
    /\ IF monitoring_active
       THEN /\ cycles < budget
            /\ cycles' = cycles + 1
            /\ pc' = "cycle"
       ELSE /\ pc' = "returned"
            /\ UNCHANGED cycles
    /\ UNCHANGED <<env, config, logger, monitoring_active, last_check, baseline_usage,
                   waited, cycle_failed, breaker, locals, probe>>

\* _monitoring_cycle from the point where get_all_usage has its tasks'
\* results: build the usage dict, detect, handle, self.last_check; an
\* exception (the notifier raising for the raise_at-th anomaly) is caught and
\* logged by the cycle itself
CycleOn(task_results) ==
    LET usage == get_all_usage(task_results)
        detected == detect_anomalies(config, baseline_usage, usage)
    IN
    \E raise_at \in 0..(IF "notify" \in faults THEN Len(detected) ELSE 0) :
        LET st == handle_anomalies(
                      config, telegram,
                      [history |-> anomalies_detected,
                       decisions |-> decisions,
                       critical |-> critical_alerts,
                       alerts |-> alerts_sent,
                       results |-> alert_results,
                       raised |-> FALSE],
                      detected, cycles, raise_at)
        IN
        /\ last_results' = task_results
        /\ last_usage' = usage
        /\ last_anomalies' = detected
        /\ anomalies_detected' = st.history
        /\ decisions' = st.decisions
        /\ critical_alerts' = st.critical
        /\ alerts_sent' = st.alerts
        /\ alert_results' = st.results
        /\ cycle_failed' = st.raised
        /\ last_check' = IF st.raised THEN last_check ELSE cycles

\* get_all_usage raises before its try (the session cannot be created): the
\* cycle's except branch
CycleFetchRaises ==
    /\ "fetch" \in faults
    /\ cycle_failed' = TRUE
    /\ last_results' = <<>>
    /\ last_usage' = None
    /\ last_anomalies' = <<>>
    /\ UNCHANGED <<last_check, breaker>>

\* _monitoring_cycle: fetch, detect, handle, self.last_check; any exception
\* (the fan-in raising, or the notifier raising) is caught and logged by the
\* cycle itself
MonitoringCycle ==
    /\ pc = "cycle"
    /\ \/ CycleFetchRaises
       \/ \E task_results \in ResultLists(credentials, feed) : CycleOn(task_results)
    /\ pc' = "pause"
    /\ UNCHANGED <<env, config, logger, monitoring_active, baseline_usage, cycles,
                   waited, pending, probe>>

\* _monitoring_cycle has returned: its locals no longer exist
FrameGone ==
    /\ last_results' = <<>>
    /\ last_usage' = None
    /\ last_anomalies' = <<>>
    /\ UNCHANGED pending

\* await asyncio.sleep(self.config["monitoring_interval"])
IntervalSleep ==
    /\ pc = "pause"
    /\ "monitoring_interval" \in DOMAIN config
    /\ waited' = config.monitoring_interval
    /\ pc' = "loop"
    /\ FrameGone
    /\ UNCHANGED <<env, config, logger, monitoring_active, last_check, baseline_usage,
                   cycles, cycle_failed, breaker, probe>>

\* start_monitoring with no "except Exception": the KeyError ends the loop
ErrorBackoffFatal ==
    /\ pc = "pause"
    /\ "monitoring_interval" \notin DOMAIN config
    /\ pc' = "returned"
    /\ FrameGone
    /\ UNCHANGED <<env, config, logger, monitoring_active, last_check, baseline_usage,
                   cycles, waited, cycle_failed, breaker, probe>>

\* except Exception in start_monitoring: the only exception that reaches it
\* is the KeyError of self.config["monitoring_interval"]
ErrorBackoff ==
    /\ pc = "pause"
    /\ "monitoring_interval" \notin DOMAIN config
    /\ waited' = ErrorBackoffSeconds
    /\ pc' = "loop"
    /\ FrameGone
    /\ UNCHANGED <<env, config, logger, monitoring_active, last_check, baseline_usage,
                   cycles, cycle_failed, breaker, probe>>

\* stop_monitoring that also forgets the baseline
StopMonitoringClearingBaseline ==
    /\ pc \notin {"new", "aborted", "returned"}
    /\ monitoring_active
    /\ monitoring_active' = FALSE
    /\ baseline_usage' = EmptyDict
    /\ UNCHANGED <<env, pc, config, logger, last_check, cycles, waited,
                   cycle_failed, breaker, locals, probe>>

\* stop_monitoring, called from outside the loop's task
StopMonitoring ==
    /\ pc \notin {"new", "aborted", "returned"}
    /\ monitoring_active
    /\ monitoring_active' = FALSE
    /\ UNCHANGED <<env, pc, config, logger, last_check, baseline_usage, cycles, waited,
                   cycle_failed, breaker, locals, probe>>

Next ==
    \/ Construct
    \/ StartMonitoring
    \/ EstablishBaseline
    \/ LoopTest
    \/ MonitoringCycle
    \/ IntervalSleep
    \/ ErrorBackoff
    \/ StopMonitoring

Spec == Init /\ [][Next]_vars

\* the steps of start_monitoring's task: the event loop resumes the task
\* whenever the await it is suspended on (a fetch fan-in, a notification, a
\* sleep) completes
LoopStep ==
    \/ StartMonitoring
    \/ EstablishBaseline
    \/ LoopTest
    \/ MonitoringCycle
    \/ IntervalSleep
    \/ ErrorBackoff

SpecFair == InitFair /\ [][Next]_vars /\ WF_vars(LoopStep)

\* monitor._check_cost_thresholds(service, usage_data), called directly
CallCheckCost ==
    /\ pc = "idle"
    /\ \E service \in Services, cost \in 0..MaxCost :
        probe' = [call |-> "cost", service |-> service, cost |-> cost,
                  result |-> check_cost_thresholds(config, service, Sample(cost, 0))]
    /\ UNCHANGED <<env, pc, config, logger, monitoring_active, last_check,
                   baseline_usage, cycles, waited, cycle_failed, breaker, locals>>

\* monitor._check_usage_spikes(service, usage_data), called directly
CallCheckSpikes ==
    /\ pc = "idle"
    /\ \E service \in Services, requests \in 0..MaxRequests :
        probe' = [call |-> "spike", service |-> service, requests |-> requests,
                  result |-> check_usage_spikes(config, baseline_usage, service,
                                                Sample(0, requests))]
    /\ UNCHANGED <<env, pc, config, logger, monitoring_active, last_check,
                   baseline_usage, cycles, waited, cycle_failed, breaker, locals>>

\* monitor._detect_anomalies(current_usage), called directly on a monitor
\* fresh from setup_method, with one service's sample chosen freely and the
\* other service quiet
CallDetectAnomalies ==
    /\ pc = "idle"
    /\ probe = None
    /\ \E service \in Services, cost \in 0..MaxCost, requests \in 0..MaxRequests :
        LET current_usage == [name \in Services |->
                                 IF name = service THEN Sample(cost, requests)
                                 ELSE Sample(0, 0)]
        IN probe' = [call |-> "detect", service |-> service,
                     usage |-> current_usage,
                     result |-> detect_anomalies(config, baseline_usage, current_usage)]
    /\ UNCHANGED <<env, pc, config, logger, monitoring_active, last_check,
                   baseline_usage, cycles, waited, cycle_failed, breaker, locals>>

NextDetect == CallCheckCost \/ CallCheckSpikes \/ CallDetectAnomalies

SpecDetect == InitDetect /\ [][NextDetect]_vars

SpecWindow == InitWindow /\ [][Next]_vars

SpecNotify == InitNotify /\ [][Next]_vars

\* a task of the fan-in that has not returned yet
Outstanding == [outstanding |-> TRUE]

\* _monitoring_cycle up to "await asyncio.gather(*tasks, ...)": one task per
\* configured detector has been created and none has returned
GatherStart ==
    /\ pc = "cycle"
    /\ \/ /\ CycleFetchRaises
          /\ pc' = "pause"
          /\ UNCHANGED pending
       \/ /\ pending' = {<<cycles, i>> : i \in 1..Len(Tasks(credentials))}
          /\ last_results' = [i \in 1..Len(Tasks(credentials)) |-> Outstanding]
          /\ last_usage' = None
          /\ last_anomalies' = <<>>
          /\ pc' = "gather"
          /\ UNCHANGED <<last_check, cycle_failed, breaker>>
    /\ UNCHANGED <<env, config, logger, monitoring_active, baseline_usage, cycles,
                   waited, probe>>

\* one _get_service_usage task returns, with a sample or with the error dict
\* of its except branch; the tasks return in any order
TaskResolve ==
    /\ pc = "gather"
    /\ \E task \in pending, result \in feed :
          /\ pending' = pending \ {task}
          /\ last_results' = [last_results EXCEPT ![task[2]] = result]
    /\ UNCHANGED <<env, pc, config, logger, monitoring_active, last_check,
                   baseline_usage, cycles, waited, cycle_failed, breaker,
                   last_usage, last_anomalies, probe>>

\* the fan-in waiting with asyncio.wait(..., return_when=FIRST_COMPLETED):
\* the cycle goes on as soon as one task has returned
GatherFirstCompleted ==
    /\ pc = "gather"
    /\ \/ pending = {}
       \/ \E i \in 1..Len(last_results) : last_results[i] # Outstanding
    /\ CycleOn(last_results)
    /\ pc' = "pause"
    /\ UNCHANGED <<env, config, logger, monitoring_active, baseline_usage, cycles,
                   waited, pending, probe>>

\* asyncio.gather returns once every task has returned; then the rest of
\* get_all_usage and of _monitoring_cycle runs
GatherDone ==
    /\ pc = "gather"
    /\ pending = {}
    /\ CycleOn(last_results)
    /\ pc' = "pause"
    /\ UNCHANGED <<env, config, logger, monitoring_active, baseline_usage, cycles,
                   waited, pending, probe>>

NextGather ==
    \/ Construct
    \/ StartMonitoring
    \/ EstablishBaseline
    \/ LoopTest
    \/ GatherStart
    \/ TaskResolve
    \/ GatherDone
    \/ IntervalSleep
    \/ ErrorBackoff
    \/ StopMonitoring

SpecGather == InitGather /\ [][NextGather]_vars

----------------------------------------------------------------------------
(* GitHubSecretsManager (src/github_secrets_manager.py) *)

\* every variable of the monitor: the other components leave them alone
monitor == <<config_file, credentials, feed, faults, telegram, budget, pc, config,
             logger, monitoring_active, last_check, anomalies_detected,
             baseline_usage, cycles, waited, cycle_failed, breaker, locals, probe>>

\* Names are sequences of parts, so that str.replace can be computed:
\* "app_env" is <<"app", "_env">>
ProjectNames == {<<"app">>, <<"app", "_env">>, <<"site", "_ENV">>, <<"_env">>, <<"gone">>}

RepoNames == {<<"app">>, <<"site">>}

\* what GET /repos/{owner}/{repo} can answer for a repository
Visibilities == {"private", "public", "unmarked", "not_found", "forbidden", "unreachable"}

\* how the secrets API behaves once the repository has been accepted
ApiModes == {"ok", "no_public_key", "encrypt_fails", "put_rejected"}

\* the credentials of main()'s test project: name, and whether
\* _is_secret_not_setting holds for it (an indicator of secret_indicators
\* occurs in the name; PORT and DEBUG are setting_indicators)
TestCredentials ==
    [resolved |-> {[key |-> "OPENAI_API_KEY", secret |-> TRUE],
                   [key |-> "TELEGRAM_BOT_TOKEN", secret |-> TRUE],
                   [key |-> "PORT", secret |-> FALSE]},
     generated |-> {[key |-> "JWT_SECRET", secret |-> TRUE],
                    [key |-> "DEBUG", secret |-> FALSE]}]

NoCredentials == [resolved |-> {}, generated |-> {}]

ProjectResults ==
    [project_name : ProjectNames, credentials : {TestCredentials, NoCredentials}]

\* _map_project_to_repo with its empty project_mappings:
\* project_name.replace('_env', '').replace('_ENV', '')
map_project_to_repo(project_name) ==
    SelectSeq(project_name, LAMBDA part : part \notin {"_env", "_ENV"})

\* requests.get(f"{base_url}/repos/{owner}/{repo_name}")
RepoResponse(repos, repo_name) ==
    LET seen == IF repo_name \in DOMAIN repos THEN repos[repo_name] ELSE "not_found" IN
    CASE seen = "private" -> [status_code |-> 200, json |-> [private |-> TRUE]]
      [] seen = "public" -> [status_code |-> 200, json |-> [private |-> FALSE]]
      [] seen = "unmarked" -> [status_code |-> 200, json |-> [archived |-> FALSE]]
      [] seen = "not_found" -> [status_code |-> 404]
      [] seen = "forbidden" -> [status_code |-> 403]
      [] seen = "unreachable" -> [raised |-> "ConnectionError"]

\* _get_repository_info without its security check
get_repository_info_any_visibility(response) ==
    IF Raised(response) THEN None
    ELSE IF response.status_code = 200 THEN response.json
    ELSE None

\* _get_repository_info
get_repository_info(response) ==
    IF Raised(response) THEN None
    ELSE IF response.status_code = 200
    THEN IF ~Get(response.json, "private", FALSE) THEN None ELSE response.json
    ELSE None

\* _prepare_secrets_for_sync: the names that pass _is_secret_not_setting
prepare_secrets_for_sync(project_result) ==
    {c.key : c \in {c \in project_result.credentials.resolved
                            \cup project_result.credentials.generated : c.secret}}

\* _sync_secrets_to_repo: the PUT requests it issues and its counts
sync_secrets_to_repo(api, repo_name, secrets) ==
    IF api = "no_public_key"
    THEN [puts |-> {}, synced_count |-> 0, failed_count |-> Cardinality(secrets)]
    ELSE IF api = "encrypt_fails"
    THEN [puts |-> {}, synced_count |-> 0, failed_count |-> Cardinality(secrets)]
    ELSE [puts |-> {[repo |-> repo_name, secret |-> name] : name \in secrets},
          synced_count |-> IF api = "ok" THEN Cardinality(secrets) ELSE 0,
          failed_count |-> IF api = "ok" THEN 0 ELSE Cardinality(secrets)]

\* process_project_secrets: its return value and the PUT requests it issued
process_project_secrets(repos, api, project_result) ==
    LET repo_name == map_project_to_repo(project_result.project_name)
        repo_info == get_repository_info(RepoResponse(repos, repo_name))
        sync_results == sync_secrets_to_repo(api, repo_name,
                                             prepare_secrets_for_sync(project_result))
    IN
    IF repo_name = <<>>
    THEN [puts |-> {},
          result |-> [project_name |-> project_result.project_name,
                      status |-> "no_repo_mapped", secrets_synced |-> 0]]
    ELSE IF repo_info = None
    THEN [puts |-> {},
          result |-> [project_name |-> project_result.project_name,
                      repo_name |-> repo_name,
                      status |-> "repo_not_found", secrets_synced |-> 0]]
    ELSE [puts |-> sync_results.puts,
          result |-> [project_name |-> project_result.project_name,
                      repo_name |-> repo_name,
                      repo_info |-> repo_info,
                      status |-> "success",
                      secrets_synced |-> sync_results.synced_count,
                      secrets_failed |-> sync_results.failed_count]]

\* a manager, the repositories as the API reports them, nothing synced yet
InitGithub ==
    /\ NoMonitor
    /\ github \in [repos : [RepoNames -> Visibilities], api : ApiModes,
                    puts : {{}}, results : {<<>>}]
    /\ rotation = None
    /\ autosync = None

\* one iteration of batch_sync_projects' loop: process_project_secrets on the
\* next project, its result appended to results
ProcessProject ==
    /\ "results" \in DOMAIN github
    /\ Len(github.results) < MaxProjects
    /\ \E project_result \in ProjectResults :
          LET done == process_project_secrets(github.repos, github.api, project_result) IN
          github' = [github EXCEPT !.puts = @ \cup done.puts,
                                   !.results = Append(@, done.result)]
    /\ UNCHANGED <<monitor, rotation, autosync>>

NextGithub == ProcessProject

SpecGithub == InitGithub /\ [][NextGithub]_vars

----------------------------------------------------------------------------
(* RotationScheduler (src/key_rotation/rotation_scheduler.py) *)

\* _get_last_rotation_date's placeholder: every credential was last rotated
\* 90 days ago
PlaceholderAgeDays == 90

\* the keys of self.rotators that the model follows
Rotators == {"openai", "stripe"}

\* the providers of rotation_config.json: "vault" has no rotator
ConfigProviders == {"openai", "stripe", "vault"}

\* the one credential each provider lists in the config
CredentialOf ==
    [openai |-> "OPENAI_API_KEY", stripe |-> "STRIPE_SECRET_KEY", vault |-> "VAULT_TOKEN"]

\* config['rotation_policies']
rotation_policies ==
    [standard |-> [schedule_days |-> 90, notification_days_before |-> 7,
                   require_approval |-> FALSE],
     critical |-> [schedule_days |-> 30, notification_days_before |-> 7,
                   require_approval |-> TRUE],
     relaxed |-> [schedule_days |-> 180, notification_days_before |-> 7,
                  require_approval |-> FALSE]]

\* RotationEvent(...) as check_rotation_schedule builds it
RotationEvent(credential, provider, scheduled_date, approval_required) ==
    [credential_name |-> credential,
     provider |-> provider,
     rotation_type |-> "scheduled",
     scheduled_date |-> scheduled_date,
     notification_sent |-> FALSE,
     approval_required |-> approval_required,
     approved |-> FALSE,
     completed |-> FALSE,
     old_key_hash |-> None,
     new_key_hash |-> None]

\* check_rotation_schedule with datetime.now() as day 0: the events of the
\* credentials whose notification date has come, by credential name
check_rotation_schedule(policy_of) ==
    LET next_rotation(provider) ==
            (0 - PlaceholderAgeDays) + rotation_policies[policy_of[provider]].schedule_days
        notification_date(provider) ==
            next_rotation(provider)
                - rotation_policies[policy_of[provider]].notification_days_before
        due == {provider \in DOMAIN policy_of : 0 >= notification_date(provider)}
    IN
    [credential \in {CredentialOf[provider] : provider \in due} |->
        LET provider == CHOOSE q \in due : CredentialOf[q] = credential IN
        RotationEvent(credential, provider, next_rotation(provider),
                      rotation_policies[policy_of[provider]].require_approval)]

\* _hash_key of a key, kept symbolic
HashOf(key) == [sha256 |-> key]

ValueError == [raised |-> "ValueError"]

\* rotate_credential of the provider rotators: the credential must be in the
\* environment; returns (old_hash, new_hash)
rotate_credential(environ, credential_name) ==
    IF credential_name \notin environ THEN ValueError
    ELSE [old_hash |-> HashOf(<<"current", credential_name>>),
          new_hash |-> HashOf(<<"rotated", credential_name>>)]

\* what one call of execute_scheduled_rotation did: the event afterwards,
\* whether a rotator was called, whether it returned, the return value
Executed(event, rotator_called, rotator_returned, returned) ==
    [event |-> event, credential_name |-> event.credential_name,
     rotator_called |-> rotator_called, rotator_returned |-> rotator_returned,
     returned |-> returned]

\* execute_scheduled_rotation without its approval test
execute_scheduled_rotation_unapproved(environ, event) ==
    IF event.provider \notin Rotators
    THEN Executed(event, FALSE, FALSE, FALSE)
    ELSE
        LET rotated == rotate_credential(environ, event.credential_name) IN
        IF Raised(rotated) THEN Executed(event, TRUE, FALSE, FALSE)
        ELSE Executed([event EXCEPT !.completed = TRUE,
                                    !.old_key_hash = rotated.old_hash,
                                    !.new_key_hash = rotated.new_hash],
                      TRUE, TRUE, TRUE)

\* execute_scheduled_rotation
execute_scheduled_rotation(environ, event) ==
    IF event.approval_required /\ ~event.approved
    THEN Executed(event, FALSE, FALSE, FALSE)
    ELSE IF event.provider \notin Rotators
    THEN Executed(event, FALSE, FALSE, FALSE)
    ELSE
        LET rotated == rotate_credential(environ, event.credential_name) IN
        IF Raised(rotated) THEN Executed(event, TRUE, FALSE, FALSE)
        ELSE Executed([event EXCEPT !.completed = TRUE,
                                    !.old_key_hash = rotated.old_hash,
                                    !.new_key_hash = rotated.new_hash],
                      TRUE, TRUE, TRUE)

\* a scheduler whose config gives each provider a policy, the credentials
\* that are in the environment, and the events check_rotation_schedule found
InitRotation ==
    /\ NoMonitor
    /\ github = None
    /\ autosync = None
    /\ \E policy_of \in [ConfigProviders -> DOMAIN rotation_policies],
          environ \in SUBSET {"OPENAI_API_KEY", "STRIPE_SECRET_KEY"} :
          rotation = [environ |-> environ,
                      events |-> check_rotation_schedule(policy_of),
                      executions |-> 0,
                      refused |-> 0,
                      last_call |-> None]

\* somebody approves a pending event: event.approved = True
Approve ==
    /\ "events" \in DOMAIN rotation
    /\ \E credential \in DOMAIN rotation.events :
          /\ rotation.events[credential].approval_required
          /\ ~rotation.events[credential].approved
          /\ rotation' = [rotation EXCEPT !.events[credential].approved = TRUE]
    /\ UNCHANGED <<monitor, github, autosync>>

\* scheduler.execute_scheduled_rotation(event) on one of the due events
ExecuteScheduledRotation ==
    /\ "events" \in DOMAIN rotation
    /\ rotation.executions < MaxExecutions
    /\ \E credential \in DOMAIN rotation.events :
          LET event == rotation.events[credential]
              call == execute_scheduled_rotation(rotation.environ, event)
          IN
          rotation' = [rotation EXCEPT
                          !.events[credential] = call.event,
                          !.executions = @ + 1,
                          !.refused = IF event.approval_required /\ ~event.approved
                                      THEN @ + 1 ELSE @,
                          !.last_call = call]
    /\ UNCHANGED <<monitor, github, autosync>>

NextRotation == Approve \/ ExecuteScheduledRotation

SpecRotation == InitRotation /\ [][NextRotation]_vars

----------------------------------------------------------------------------
(* ENVSyncHandler (src/src/auto_sync.py).  Time is counted in seconds; a    *)
(* threading.Timer runs its function when its interval has passed unless   *)
(* it was cancelled before.  Paths are sequences of characters.            *)

\* "debounce_seconds" of load_config's default config
DefaultDebounce == 3

DotEnv == <<".", "e", "n", "v">>

\* src_path of the events the observer delivers: .env, a.env, env, .env.b
Paths ==
    {DotEnv, <<"a">> \o DotEnv, <<"e", "n", "v">>, DotEnv \o <<".", "b">>}

\* str.endswith
EndsWith(path, suffix) ==
    /\ Len(path) >= Len(suffix)
    /\ SubSeq(path, Len(path) - Len(suffix) + 1, Len(path)) = suffix

\* threading.Timer(interval, self.sync_secrets) started at time now
Timer(now, interval) == [deadline |-> now + interval, state |-> "waiting"]

\* Timer.cancel(): stops the timer if it is still waiting
cancel(timer) ==
    IF timer.state = "waiting" THEN [timer EXCEPT !.state = "cancelled"] ELSE timer

\* on_modified that starts its timer without cancelling the pending one
on_modified_without_cancel(handler, event) ==
    IF event.is_directory \/ ~EndsWith(event.src_path, DotEnv)
    THEN [handler EXCEPT !.ignored = @ + 1, !.last_event = event]
    ELSE [handler EXCEPT
             !.timers = Append(handler.timers,
                               Timer(handler.now, handler.debounce_seconds)),
             !.sync_timer = Len(handler.timers) + 1,
             !.accepted = Append(@, handler.now),
             !.last_event = event]

\* on_modified; sync_timer is an index into timers, 0 for None
on_modified(handler, event) ==
    IF event.is_directory \/ ~EndsWith(event.src_path, DotEnv)
    THEN [handler EXCEPT !.ignored = @ + 1, !.last_event = event]
    ELSE
        LET cancelled ==
                IF handler.sync_timer # 0
                THEN [handler.timers EXCEPT ![handler.sync_timer] = cancel(@)]
                ELSE handler.timers
        IN
        [handler EXCEPT
            !.timers = Append(cancelled, Timer(handler.now, handler.debounce_seconds)),
            !.sync_timer = Len(cancelled) + 1,
            !.accepted = Append(@, handler.now),
            !.last_event = event]

\* a handler fresh from __init__, with the default debounce or a configured one
InitAutoSync ==
    /\ NoMonitor
    /\ github = None
    /\ rotation = None
    /\ \E debounce_seconds \in {DefaultDebounce, DefaultDebounce - 1} :
          autosync = [now |-> 0,
                      debounce_seconds |-> debounce_seconds,
                      sync_timer |-> 0,
                      timers |-> <<>>,
                      accepted |-> <<>>,
                      ignored |-> 0,
                      last_event |-> None,
                      syncs |-> <<>>]

\* timers whose interval has passed and that were not cancelled
Due(handler) ==
    {i \in 1..Len(handler.timers) :
        /\ handler.timers[i].state = "waiting"
        /\ handler.timers[i].deadline <= handler.now}

\* the observer thread delivers a modification event to on_modified
OnModified ==
    /\ "timers" \in DOMAIN autosync
    /\ Len(autosync.accepted) + autosync.ignored < MaxEvents
    /\ \E is_directory \in BOOLEAN, src_path \in Paths :
          autosync' = on_modified(autosync,
                                  [is_directory |-> is_directory, src_path |-> src_path])
    /\ UNCHANGED <<monitor, github, rotation>>

\* a timer's thread finds its interval over and runs self.sync_secrets
TimerFires ==
    /\ "timers" \in DOMAIN autosync
    /\ \E i \in Due(autosync) :
          autosync' = [autosync EXCEPT !.timers[i].state = "finished",
                                       !.syncs = Append(@, autosync.now)]
    /\ UNCHANGED <<monitor, github, rotation>>

\* a second passes; a timer that is due runs before the clock moves on
Tick ==
    /\ "timers" \in DOMAIN autosync
    /\ autosync.now < MaxTime
    /\ Due(autosync) = {}
    /\ autosync' = [autosync EXCEPT !.now = @ + 1]
    /\ UNCHANGED <<monitor, github, rotation>>

NextAutoSync == OnModified \/ TimerFires \/ Tick

SpecAutoSync == InitAutoSync /\ [][NextAutoSync]_vars

----------------------------------------------------------------------------
(* Properties *)

Called(kind) == "call" \in DOMAIN probe /\ probe.call = kind

HourlyLimit(service) == config.cost_thresholds[service].hourly

HasHourlyLimit(service) ==
    /\ service \in DOMAIN config.cost_thresholds
    /\ "hourly" \in DOMAIN config.cost_thresholds[service]

BaselineRequests(service) ==
    IF service \in DOMAIN baseline_usage
    THEN Get(baseline_usage[service], "requests_per_hour", 0)
    ELSE 0

IsAnomaly(x) == "type" \in DOMAIN x

BreakerEnabled == "circuit_breaker" \in DOMAIN config /\ config.circuit_breaker.enabled

Recorded == 1..Len(anomalies_detected)

\* C1: from an empty history with the breaker enabled, the 3rd of three
\* Medium anomalies of one service trips the breaker.
C1_ThirdMediumTrips ==
    (/\ BreakerEnabled
     /\ Len(anomalies_detected) >= 3
     /\ \A i \in 1..3 :
            /\ anomalies_detected[i].severity = "medium"
            /\ anomalies_detected[i].service = anomalies_detected[1].service)
    => decisions[3]

\* C2: the stored anomaly history never holds more than 10 entries.
C2_HistoryAtMostTen == Len(anomalies_detected) <= HistoryWindow

\* C3: the circuit breaker trips (and sends its critical alert) at most
\* once per service per session.
C3_TripsAtMostOncePerService ==
    \A s \in Services :
        Cardinality({i \in 1..Len(critical_alerts) : critical_alerts[i] = s}) <= 1

\* how many of the first n recorded anomalies triggered the breaker
Triggered(n) == Cardinality({j \in 1..n : decisions[j]})

\* C4: with the breaker enabled, every High anomaly triggers the breaker
\* when handled (a critical alert naming its service is sent), whatever the
\* history and the service.
C4_HighAlwaysTrips ==
    /\ Len(decisions) = Len(anomalies_detected)
    /\ Len(critical_alerts) = Triggered(Len(decisions))
    /\ \A i \in Recorded :
        (BreakerEnabled /\ anomalies_detected[i].severity = "high") =>
            /\ decisions[i]
            /\ critical_alerts[Triggered(i)] = anomalies_detected[i].service

\* a session whose first anomaly is High, is stripe's, and tripped the breaker
\* on an empty history
C4_Witness ==
    /\ BreakerEnabled
    /\ Len(anomalies_detected) >= 1
    /\ anomalies_detected[1].severity = "high"
    /\ anomalies_detected[1].service = "stripe"
    /\ decisions[1]
    /\ critical_alerts[1] = "stripe"

\* C5: for a service with hourly limit L and a sample of cost c, the cost
\* check returns a cost_threshold anomaly iff c > L; it is high iff c > 2L,
\* else medium.
C5_CostThresholdRule ==
    (Called("cost") /\ HasHourlyLimit(probe.service)) =>
        LET L == HourlyLimit(probe.service)
            c == probe.cost
            r == probe.result
        IN
        /\ IsAnomaly(r) <=> c > L
        /\ ~IsAnomaly(r) => r = None
        /\ IsAnomaly(r) =>
              /\ r.type = "cost_threshold"
              /\ r.service = probe.service
              /\ r.severity = IF c > 2 * L THEN "high" ELSE "medium"

\* a cost of exactly 2L was checked and came out medium
C5_Witness ==
    /\ Called("cost")
    /\ HasHourlyLimit(probe.service)
    /\ probe.cost = 2 * HourlyLimit(probe.service)
    /\ IsAnomaly(probe.result)
    /\ probe.result.severity = "medium"

\* C6: with baseline b > 0 and current rate r, the spike check returns a
\* usage_spike anomaly iff r/b > m; its multiplier is r/b; it is high iff
\* r/b > 2m, else medium.
C6_UsageSpikeRule ==
    (Called("spike") /\ BaselineRequests(probe.service) > 0) =>
        LET b == BaselineRequests(probe.service)
            r == probe.requests
            m == config.usage_spike_multiplier
            a == probe.result
        IN
        /\ IsAnomaly(a) <=> r * m.den > m.num * b
        /\ ~IsAnomaly(a) => a = None
        /\ IsAnomaly(a) =>
              /\ a.type = "usage_spike"
              /\ a.service = probe.service
              /\ a.multiplier.den > 0
              /\ a.multiplier.num * b = r * a.multiplier.den
              /\ a.severity = IF r * m.den > 2 * m.num * b THEN "high" ELSE "medium"

\* a rate of exactly 2m times the baseline was checked and came out medium
C6_Witness ==
    /\ Called("spike")
    /\ BaselineRequests(probe.service) > 0
    /\ probe.requests * config.usage_spike_multiplier.den
          = 2 * config.usage_spike_multiplier.num * BaselineRequests(probe.service)
    /\ IsAnomaly(probe.result)
    /\ probe.result.severity = "medium"

\* C7: with no baseline entry, or a baseline rate of 0, the spike check
\* returns nothing and raises nothing, whatever the current rate.
C7_NoBaselineNoSpike ==
    (Called("spike") /\ BaselineRequests(probe.service) = 0) => probe.result = None

\* a positive rate was checked against a baseline entry whose rate is 0
C7_Witness ==
    /\ Called("spike")
    /\ probe.service \in DOMAIN baseline_usage
    /\ "requests_per_hour" \in DOMAIN baseline_usage[probe.service]
    /\ baseline_usage[probe.service].requests_per_hour = 0
    /\ probe.requests > 0
    /\ probe.result = None

\* s's anomalies among the first n recorded
OwnHistory(s, n) ==
    SelectSeq(SubSeq(anomalies_detected, 1, n), LAMBDA a : a.service = s)

\* C8: on the count rule the decision for an anomaly of service s is the one
\* the same session makes with only s's anomalies recorded.
C8_OwnHistoryDecides ==
    \A i \in Recorded :
        LET a == anomalies_detected[i] IN
        a.severity = "medium" =>
            decisions[i] = should_trigger_circuit_breaker(config, OwnHistory(a.service, i - 1), a)

\* C9: with the config file missing, construction completes and the
\* monitor runs on the default configuration.
C9_MissingConfigFallsBack ==
    (config_file = FileMissing /\ pc # "new") =>
        (pc # "aborted" /\ config = default_config)

\* C10: the wait that follows a failed cycle is the fixed 60 seconds.
C10_FailedCycleWaitsSixty ==
    (pc = "loop" /\ cycles > 0 /\ cycle_failed) => waited = ErrorBackoffSeconds

\* start_monitoring's task is between its first await and its return
Running == pc \in {"baseline", "loop", "cycle", "pause"}

\* C11: no exception of baseline establishment, fetching, detection,
\* escalation or notification ends the loop: start_monitoring returns only
\* after monitoring_active was cleared, and while it is set a further cycle
\* is eventually started.
C11_LoopKeepsRunning ==
    /\ [](pc = "returned" => ~monitoring_active)
    /\ \A n \in 0..FairCycles :
          (Running /\ monitoring_active /\ cycles = n /\ n < budget)
              ~> (cycles = n + 1 \/ ~monitoring_active)

\* a further cycle has started after a cycle that failed
C11_Witness ==
    /\ pc = "cycle"
    /\ cycles >= 2
    /\ cycle_failed
    /\ monitoring_active

\* C12: after stop_monitoring on a running loop, the cycle in progress runs
\* to completion, no new cycle is started, and start_monitoring eventually
\* returns.
C12_StopEndsLoop ==
    /\ [][(Running /\ ~monitoring_active) => cycles' = cycles]_vars
    /\ [][(pc = "cycle" /\ ~monitoring_active) => pc' \in {"cycle", "pause"}]_vars
    /\ (pc = "cycle" /\ ~monitoring_active) ~> (pc = "pause")
    /\ (Running /\ ~monitoring_active) ~> (pc = "returned")

\* the loop has returned after a stop that let at least one cycle record
\* its anomalies
C12_Witness ==
    /\ pc = "returned"
    /\ ~monitoring_active
    /\ cycles >= 1
    /\ last_check = cycles
    /\ anomalies_detected # <<>>

\* _monitoring_cycle has just run and its fan-in returned a usage dict
CycleFetched == pc = "pause" /\ "none" \notin DOMAIN last_usage

Failed(usage_data) == "error" \in DOMAIN usage_data

\* the cycle's anomalies of one kind for one service
Detected(service, kind) ==
    SelectSeq(last_anomalies, LAMBDA a : a.service = service /\ a.type = kind)

CostOver(service, usage_data) ==
    /\ HasHourlyLimit(service)
    /\ usage_data.estimated_cost > HourlyLimit(service)

SpikeOver(service, usage_data) ==
    /\ BaselineRequests(service) > 0
    /\ usage_data.requests_per_hour * config.usage_spike_multiplier.den
          > config.usage_spike_multiplier.num * BaselineRequests(service)

\* C13: when one fetch fails and others succeed, the cycle is not aborted:
\* every successful sample is in the usage dict get_all_usage returns and
\* went through both checks in that cycle, and the failed fetch makes no
\* exception leave the cycle.
C13_FailedFetchIsolated ==
    (CycleFetched /\ \E i \in 1..Len(last_results) : Failed(last_results[i])) =>
        /\ \A i \in 1..Len(last_results) :
              ~Failed(last_results[i]) =>
                  \E name \in DOMAIN last_usage : last_usage[name] = last_results[i]
        /\ \A name \in DOMAIN last_usage :
              ~Failed(last_usage[name]) =>
                  /\ CostOver(name, last_usage[name]) =>
                        /\ Len(Detected(name, "cost_threshold")) = 1
                        /\ Detected(name, "cost_threshold")[1].current_cost
                              = last_usage[name].estimated_cost
                  /\ SpikeOver(name, last_usage[name]) =>
                        /\ Len(Detected(name, "usage_spike")) = 1
                        /\ Detected(name, "usage_spike")[1].current_requests
                              = last_usage[name].requests_per_hour
        /\ last_anomalies = <<>> => (~cycle_failed /\ last_check = cycles)

\* openai's fetch failed, stripe's sample ran away, and the cycle detected
\* and recorded stripe's anomalies without failing
C13_Witness ==
    /\ CycleFetched
    /\ Len(last_results) = 2
    /\ Failed(last_results[1])
    /\ ~Failed(last_results[2])
    /\ CostOver("stripe", last_results[2])
    /\ Len(Detected("stripe", "cost_threshold")) = 1
    /\ ~cycle_failed
    /\ last_check = cycles

\* C14: a service whose fetch failed has no entry in the usage dict that
\* get_all_usage returns for that cycle.
C14_FailedFetchExcluded ==
    (CycleFetched /\ credentials = Services) =>
        \A i \in 1..Len(last_results) :
            Failed(last_results[i]) => ServiceOrder[i] \notin DOMAIN last_usage

\* the anomalies of one kind that a direct _detect_anomalies call returned
\* for one service
Returned(service, kind) ==
    SelectSeq(probe.result, LAMBDA a : a.service = service /\ a.type = kind)

\* C15: the cost check and the spike check of one sample are independent:
\* detection yields 0 to 2 anomalies per service, at most one of each kind,
\* each kind exactly when its own condition holds, and a sample over both
\* the hourly limit and the spike multiplier yields both (cost first).
C15_ChecksIndependent ==
    Called("detect") =>
        \A name \in Services :
            LET u == probe.usage[name]
                costs == Returned(name, "cost_threshold")
                spikes == Returned(name, "usage_spike")
            IN
            /\ Len(costs) = (IF CostOver(name, u) THEN 1 ELSE 0)
            /\ Len(spikes) = (IF SpikeOver(name, u) THEN 1 ELSE 0)
            /\ Len(SelectSeq(probe.result, LAMBDA a : a.service = name))
                  = Len(costs) + Len(spikes)
            /\ (CostOver(name, u) /\ SpikeOver(name, u)) =>
                  \E i \in 1..(Len(probe.result) - 1) :
                      /\ probe.result[i] = costs[1]
                      /\ probe.result[i + 1] = spikes[1]

\* one openai sample over both its hourly limit and the spike multiplier
\* gave exactly a cost_threshold and a usage_spike anomaly
C15_Witness ==
    /\ Called("detect")
    /\ probe.service = "openai"
    /\ CostOver("openai", probe.usage["openai"])
    /\ SpikeOver("openai", probe.usage["openai"])
    /\ Len(probe.result) = 2
    /\ probe.result[1].type = "cost_threshold"
    /\ probe.result[2].type = "usage_spike"

\* the history as _should_trigger_circuit_breaker saw it when the i-th
\* recorded anomaly was decided
HistoryBefore(i) == SubSeq(anomalies_detected, 1, i - 1)

\* how many of the last 10 entries of a history are of one service
RecentOf(history, service) ==
    Len(SelectSeq(LastN(history, HistoryWindow), LAMBDA a : a.service = service))

\* C16: with the breaker enabled, if the last 10 entries of the history
\* already hold at least 3 anomalies of a service, any new anomaly of that
\* service, a Medium one included, triggers the breaker.
C16_ThreeRecentTrip ==
    \A i \in Recorded :
        (/\ BreakerEnabled
         /\ RecentOf(HistoryBefore(i), anomalies_detected[i].service) >= TripCount)
        => decisions[i]

\* a Medium anomaly recorded after more than 10 others, with 3 or more of
\* its service among the last 10, tripped the breaker
C16_Witness ==
    \E i \in Recorded :
        /\ i > HistoryWindow + 1
        /\ BreakerEnabled
        /\ anomalies_detected[i].severity = "medium"
        /\ RecentOf(HistoryBefore(i), anomalies_detected[i].service) >= TripCount
        /\ decisions[i]

BreakerDisabled ==
    "circuit_breaker" \in DOMAIN config /\ ~config.circuit_breaker.enabled

\* C17: with the circuit breaker disabled in the configuration it is never
\* triggered and no critical alert is sent, whatever the anomalies, while
\* every anomaly a cycle handles is still alerted and recorded.
C17_DisabledNeverTrips ==
    BreakerDisabled =>
        /\ \A i \in 1..Len(decisions) : ~decisions[i]
        /\ critical_alerts = <<>>
        /\ Len(alerts_sent) = Len(anomalies_detected)
        /\ (pc = "pause" /\ ~cycle_failed) =>
              /\ Len(alerts_sent) >= Len(last_anomalies)
              /\ \A k \in 1..Len(last_anomalies) :
                    LET i == Len(alerts_sent) - Len(last_anomalies) + k IN
                    /\ alerts_sent[i] = last_anomalies[k]
                    /\ anomalies_detected[i].service = last_anomalies[k].service
                    /\ anomalies_detected[i].type = last_anomalies[k].type
                    /\ anomalies_detected[i].timestamp = cycles

\* breaker disabled: High anomalies and a 4th anomaly of one service were
\* alerted and recorded, and nothing tripped
C17_Witness ==
    /\ BreakerDisabled
    /\ Len(anomalies_detected) >= 4
    /\ Len(alerts_sent) >= 4
    /\ anomalies_detected[1].severity = "high"
    /\ \A i \in 1..4 : anomalies_detected[i].service = anomalies_detected[1].service
    /\ \A i \in 1..4 : ~decisions[i]
    /\ critical_alerts = <<>>

\* C18: after the breaker has been triggered for a service, monitoring of
\* that service is paused: no anomaly of the service is detected, alerted or
\* recorded in a later cycle.
C18_TrippedServicePaused ==
    \A i \in Recorded : \A j \in Recorded :
        (/\ decisions[i]
         /\ anomalies_detected[j].service = anomalies_detected[i].service)
        => anomalies_detected[j].timestamp <= anomalies_detected[i].timestamp

\* C19: an anomaly is not mutated after the detector created it: the dict
\* the notifier received is identical to the one stored in the history,
\* timestamp included.
C19_AnomalyNotMutated ==
    \A i \in 1..Len(alerts_sent) :
        /\ i \in DOMAIN anomalies_detected
        /\ DOMAIN alerts_sent[i] = DOMAIN anomalies_detected[i]
        /\ \A field \in DOMAIN alerts_sent[i] :
              alerts_sent[i][field] = anomalies_detected[i][field]

\* C20: the baseline is written only by baseline establishment at monitor
\* start: cycles, detection, handling, the breaker and stop_monitoring leave
\* baseline_usage unchanged, and every recorded spike was measured against
\* the baseline captured at start.
C20_BaselineOnlyAtStart ==
    /\ [][pc \notin {"new", "baseline"} => baseline_usage' = baseline_usage]_vars
    /\ [](\A i \in Recorded :
              anomalies_detected[i].type = "usage_spike" =>
                  anomalies_detected[i].baseline_requests
                      = BaselineRequests(anomalies_detected[i].service))

\* two cycles ran after a baseline was captured, spikes were recorded in
\* both, and stop_monitoring was called
C20_Witness ==
    /\ cycles >= 2
    /\ ~monitoring_active
    /\ pc = "returned"
    /\ BaselineRequests("openai") > 0
    /\ \E i \in Recorded : \E j \in Recorded :
          /\ anomalies_detected[i].type = "usage_spike"
          /\ anomalies_detected[j].type = "usage_spike"
          /\ anomalies_detected[i].timestamp = 1
          /\ anomalies_detected[j].timestamp = 2

\* the index in the history (and in the notifier's calls) of the k-th
\* anomaly of the cycle that has just run without failing
InCycle(k) == Len(anomalies_detected) - Len(last_anomalies) + k

\* C21: a delivery failure (Telegram not configured, a non-200 answer, an
\* exception while sending) comes back as False and never propagates: the
\* cycle does not fail, and every anomaly of the cycle is handed to the
\* notifier, decided by the breaker and recorded.
C21_DeliveryFailureContained ==
    /\ Len(alert_results) = Len(alerts_sent)
    /\ \A i \in 1..Len(alert_results) : alert_results[i] = (telegram = "ok")
    /\ CycleFetched =>
          /\ ~cycle_failed
          /\ last_check = cycles
          /\ Len(alerts_sent) = Len(anomalies_detected)
          /\ Len(decisions) = Len(anomalies_detected)
          /\ Len(anomalies_detected) >= Len(last_anomalies)
          /\ \A k \in 1..Len(last_anomalies) :
                /\ alerts_sent[InCycle(k)] = last_anomalies[k]
                /\ anomalies_detected[InCycle(k)].service = last_anomalies[k].service
                /\ anomalies_detected[InCycle(k)].type = last_anomalies[k].type
                /\ anomalies_detected[InCycle(k)].timestamp = cycles
                /\ decisions[InCycle(k)] =
                      should_trigger_circuit_breaker(
                          config, SubSeq(anomalies_detected, 1, InCycle(k) - 1),
                          last_anomalies[k])

\* the HTTP session raised for each of a cycle's four anomalies: all four
\* calls returned False, and all four were decided and recorded
C21_Witness ==
    /\ telegram = "send_raises"
    /\ CycleFetched
    /\ Len(last_anomalies) = 4
    /\ Len(alert_results) >= 4
    /\ \A i \in 1..Len(alert_results) : ~alert_results[i]
    /\ Len(anomalies_detected) = Len(alerts_sent)
    /\ decisions[InCycle(4)]
    /\ ~cycle_failed

\* C22: in every cycle, detection and escalation start only after every
\* fetch of the cycle has returned a sample or failed: while a fetch is
\* outstanding no anomaly of the cycle is detected, notified, decided or
\* recorded.
C22_DetectAfterAllFetches ==
    /\ [](pending # {} =>
            /\ pc = "gather"
            /\ last_usage = None
            /\ last_anomalies = <<>>
            /\ \A i \in Recorded : anomalies_detected[i].timestamp < cycles)
    /\ [](CycleFetched =>
            /\ pending = {}
            /\ \A i \in 1..Len(last_results) : last_results[i] # Outstanding)
    /\ [][pending # {} => UNCHANGED breaker]_vars

\* openai's fetch failed, stripe's returned a runaway sample, and only then
\* were the cycle's anomalies detected and recorded
C22_Witness ==
    /\ CycleFetched
    /\ pending = {}
    /\ Len(last_results) = 2
    /\ Failed(last_results[1])
    /\ last_anomalies # <<>>
    /\ \E i \in Recorded : anomalies_detected[i].timestamp = cycles

\* C27: at most one monitoring cycle is in progress at any time: a cycle
\* starts only when no fetch is outstanding and the cycle before it has
\* finished (by handling its anomalies or by failing), and the history
\* changes only in the step that finishes the current cycle.
C27_OneCycleAtATime ==
    /\ [](\A task \in pending : task[1] = cycles)
    /\ [][cycles' # cycles =>
            /\ pc = "loop"
            /\ pending = {}
            /\ cycles > 0 => (cycle_failed \/ last_check = cycles)]_vars
    /\ [][breaker' # breaker => (pc = "gather" /\ pending = {} /\ pc' = "pause")]_vars

\* the second cycle is fetching after the first one finished and recorded
\* its anomalies
C27_Witness ==
    /\ cycles = 2
    /\ pc = "gather"
    /\ pending # {}
    /\ last_check = 1
    /\ anomalies_detected # <<>>
    /\ \A i \in Recorded : anomalies_detected[i].timestamp = 1

\* what the API reports for a repository name
Reported(repo_name) ==
    IF repo_name \in DOMAIN github.repos THEN github.repos[repo_name] ELSE "not_found"

\* C23: no secret is written to a repository that is not private: no
\* create-or-update request goes to a repository whose info reports private
\* false, lacks the field, or cannot be fetched, and process_project_secrets
\* returns 'repo_not_found' with secrets_synced 0 for it.
C23_OnlyPrivateRepos ==
    /\ \A put \in github.puts : Reported(put.repo) = "private"
    /\ \A i \in 1..Len(github.results) :
          LET result == github.results[i] IN
          (/\ result.status # "no_repo_mapped"
           /\ Reported(result.repo_name) # "private")
          => (result.status = "repo_not_found" /\ result.secrets_synced = 0)
    /\ \A i \in 1..Len(github.results) :
          github.results[i].status = "success" =>
              Reported(github.results[i].repo_name) = "private"

\* a batch in which the project of a public repository was refused and the
\* project of a private one had its three secrets written
C23_Witness ==
    /\ Len(github.results) = 2
    /\ github.repos[<<"app">>] = "public"
    /\ github.repos[<<"site">>] = "private"
    /\ github.results[1].repo_name = <<"app">>
    /\ github.results[1].status = "repo_not_found"
    /\ github.results[2].status = "success"
    /\ github.results[2].secrets_synced = 3
    /\ Cardinality(github.puts) = 3

\* C24: for every set of configured services, get_all_usage stores each
\* fetched result under the name of the service whose detector produced it,
\* and the returned map has no entry for a service that is not configured.
C24_StoredUnderOwnName ==
    CycleFetched =>
        /\ DOMAIN last_usage \subseteq credentials
        /\ \A i \in 1..Len(last_results) :
              /\ Tasks(credentials)[i] \in DOMAIN last_usage
              /\ last_usage[Tasks(credentials)[i]] = last_results[i]

\* the anomalies recorded in the cycle that has just run, in history order
RecordedThisCycle ==
    SelectSeq(anomalies_detected, LAMBDA a : a.timestamp = cycles)

\* an anomaly as the detector returned it: the history entry without the
\* timestamp added when it was recorded
AsDetected(a) == [field \in DOMAIN a \ {"timestamp"} |-> a[field]]

\* C25: every detected anomaly is appended to the history exactly once,
\* whether or not it triggered the breaker, in the order of detection.
C25_EveryAnomalyRecordedOnce ==
    CycleFetched =>
        /\ Len(RecordedThisCycle) = Len(last_anomalies)
        /\ \A k \in 1..Len(last_anomalies) :
              AsDetected(RecordedThisCycle[k]) = last_anomalies[k]

\* the anomalies the notifier was handed since the history entries of
\* earlier cycles
AlertedThisCycle ==
    SubSeq(alerts_sent, Len(alerts_sent) - Len(last_anomalies) + 1, Len(alerts_sent))

\* C26: every anomaly detected in a cycle is consumed exactly once by the
\* notifier and exactly once by the escalation policy in that cycle, also
\* after an earlier anomaly of the cycle triggered the breaker.
C26_EveryAnomalyConsumedOnce ==
    CycleFetched =>
        /\ Len(alerts_sent) = Len(anomalies_detected)
        /\ Len(decisions) = Len(anomalies_detected)
        /\ Len(alerts_sent) >= Len(last_anomalies)
        /\ AlertedThisCycle = last_anomalies
        /\ Len(RecordedThisCycle) = Len(last_anomalies)

\* C28: when baseline establishment fails for some or all services the
\* monitor still enters its loop with a partial or empty baseline; later
\* cycles run the cost check for every fetched sample and skip only the
\* spike check of the services that have no usable baseline.
C28_PartialBaselineStillMonitors ==
    /\ [][(pc = "baseline" /\ pc' # pc) => pc' = "loop"]_vars
    /\ [](CycleFetched =>
            \A name \in {n \in DOMAIN last_usage : ~Failed(last_usage[n])} :
                /\ Len(Detected(name, "cost_threshold"))
                      = (IF CostOver(name, last_usage[name]) THEN 1 ELSE 0)
                /\ Len(Detected(name, "usage_spike"))
                      = (IF SpikeOver(name, last_usage[name]) THEN 1 ELSE 0)
                /\ BaselineRequests(name) = 0 => Detected(name, "usage_spike") = <<>>)

\* openai's baseline fetch failed and stripe's succeeded; in a later cycle
\* both run away: openai gets its cost anomaly and no spike check, stripe
\* gets both
C28_Witness ==
    /\ CycleFetched
    /\ DOMAIN baseline_usage = Services
    /\ Failed(baseline_usage["openai"])
    /\ BaselineRequests("stripe") > 0
    /\ DOMAIN last_usage = Services
    /\ Get(last_usage["openai"], "requests_per_hour", 0) = 70
    /\ Len(Detected("openai", "cost_threshold")) = 1
    /\ Detected("openai", "usage_spike") = <<>>
    /\ Len(Detected("stripe", "usage_spike")) = 1

\* this step is a call of execute_scheduled_rotation on the event of
\* credential c
ExecutesFor(c) ==
    /\ rotation'.executions = rotation.executions + 1
    /\ rotation'.last_call.credential_name = c

\* C29: a rotation that requires approval is never executed before it is
\* approved: the call reaches no rotator, returns False and leaves the event
\* as it was; completed becomes true only in a call whose rotator returned.
C29_NoRotationBeforeApproval ==
    /\ [][\A c \in DOMAIN rotation.events :
            (/\ rotation.events[c].approval_required
             /\ ~rotation.events[c].approved
             /\ ExecutesFor(c))
            => /\ ~rotation'.last_call.rotator_called
               /\ rotation'.last_call.returned = FALSE
               /\ rotation'.events[c] = rotation.events[c]]_vars
    /\ [][\A c \in DOMAIN rotation.events :
            (~rotation.events[c].completed /\ rotation'.events[c].completed)
            => /\ ExecutesFor(c)
               /\ rotation'.last_call.rotator_returned
               /\ rotation'.last_call.returned = TRUE
               /\ rotation.events[c].approval_required => rotation.events[c].approved]_vars
    /\ [](\A c \in DOMAIN rotation.events :
            ~rotation.events[c].completed =>
                /\ rotation.events[c].old_key_hash = None
                /\ rotation.events[c].new_key_hash = None)

\* openai's rotation needs approval: a call was refused, the event was then
\* approved, and the next call rotated the key
C29_Witness ==
    /\ "events" \in DOMAIN rotation
    /\ "OPENAI_API_KEY" \in DOMAIN rotation.events
    /\ rotation.events["OPENAI_API_KEY"].approval_required
    /\ rotation.events["OPENAI_API_KEY"].approved
    /\ rotation.events["OPENAI_API_KEY"].completed
    /\ rotation.events["OPENAI_API_KEY"].new_key_hash # None
    /\ rotation.refused >= 1
    /\ rotation.executions = 2
    /\ rotation.last_call.returned = TRUE

\* the timers that are still waiting to run sync_secrets
Waiting == {i \in 1..Len(autosync.timers) : autosync.timers[i].state = "waiting"}

\* the k-th accepted modification is the last of its burst: the next one, if
\* any, came debounce_seconds or more later
EndsBurst(k) ==
    \/ k = Len(autosync.accepted)
    \/ autosync.accepted[k + 1] - autosync.accepted[k] >= autosync.debounce_seconds

\* how many times sync_secrets ran at time t
RunsAt(t) == Cardinality({j \in 1..Len(autosync.syncs) : autosync.syncs[j] = t})

\* C30: on_modified debounces: each .env modification cancels the pending
\* timer and starts a new one, so at most one timer is pending; a burst of
\* modifications less than debounce_seconds apart gives exactly one
\* sync_secrets run, debounce_seconds after its last modification; events
\* for directories and for files that are not .env files start no timer.
C30_Debounced ==
    /\ [](Cardinality(Waiting) <= 1)
    /\ [](Len(autosync.timers) = Len(autosync.accepted))
    /\ [](\A j \in 1..Len(autosync.syncs) :
            \E k \in 1..Len(autosync.accepted) :
                /\ EndsBurst(k)
                /\ autosync.syncs[j] = autosync.accepted[k] + autosync.debounce_seconds)
    /\ [](\A k \in 1..Len(autosync.accepted) :
            LET expiry == autosync.accepted[k] + autosync.debounce_seconds IN
            /\ RunsAt(expiry) <= 1
            /\ ~EndsBurst(k) =>
                  \A j \in 1..Len(autosync.syncs) :
                      \/ autosync.syncs[j] <= autosync.accepted[k]
                      \/ autosync.syncs[j] >= autosync.accepted[k + 1]
            /\ (k = Len(autosync.accepted) /\ autosync.now > expiry) => RunsAt(expiry) = 1
            /\ (k < Len(autosync.accepted) /\ autosync.accepted[k + 1] > expiry)
                  => RunsAt(expiry) = 1)
    /\ [][(/\ autosync'.ignored + Len(autosync'.accepted)
                  > autosync.ignored + Len(autosync.accepted)
            /\ \/ autosync'.last_event.is_directory
               \/ ~EndsWith(autosync'.last_event.src_path, DotEnv))
           => /\ autosync'.timers = autosync.timers
              /\ autosync'.sync_timer = autosync.sync_timer]_vars

\* three modifications of .env files one second apart: the first two timers
\* were cancelled and sync_secrets ran once, after the third
C30_Witness ==
    /\ "timers" \in DOMAIN autosync
    /\ autosync.debounce_seconds = DefaultDebounce
    /\ autosync.accepted = <<1, 2, 3>>
    /\ autosync.timers[1].state = "cancelled"
    /\ autosync.timers[2].state = "cancelled"
    /\ autosync.timers[3].state = "finished"
    /\ autosync.syncs = <<3 + DefaultDebounce>>
    /\ autosync.now > 3 + DefaultDebounce

====
